---- MODULE Spec2Model ----
(***************************************************************************)
(* Invoicing back office (Flask + SQLAlchemy): customers, products, stock  *)
(* and the sale/invoice transaction of src/app.py over the tables of       *)
(* src/models/__init__.py.                                                 *)
(*                                                                         *)
(* Numbers.  Python Decimal arithmetic is exact; every amount is held here *)
(* as an integer count of 1/10000 of a currency unit (10.00 is 100000), so *)
(* that price * quantity and (tax / 100) * subtotal are exact integers for *)
(* prices in whole cents, whole tax percentages and whole quantities.      *)
(* float(d) of such a Decimal d has far fewer than 15 significant digits   *)
(* and denotes d again when read back, so a stored float is modelled by    *)
(* the decimal it denotes: the conversion rounds nothing to 2 places.      *)
(*                                                                         *)
(* Unit of work.  The writes of one ventas_nueva request are buffered in   *)
(* its session (req[p]) and reach the tables atomically at commit; the     *)
(* catalog and the stock rows are read once, at lines 111-112, and the     *)
(* session's identity map keeps those values for the rest of the request.  *)
(***************************************************************************)
EXTENDS Integers, Sequences, FiniteSets, TLC

\* ------------------------------------------------------------------ bounds
MaxProducts == 1       \* product ids 1..MaxProducts can be assigned by productos_agregar
MaxCustomers == 1      \* customer ids 1..MaxCustomers can be assigned by clientes_agregar
MaxInvoices == 2       \* invoice ids 1..MaxInvoices can ever be assigned
MaxLines == 2          \* producto_X keys in one submitted form

Procs == {1, 2}        \* request workers that can run ventas_nueva

\* ------------------------------------------------------------ form values
\* A form field: absent, or present with its text (a sequence of characters).
Absent == [present |-> FALSE, text |-> <<>>]
Field(t) == [present |-> TRUE, text |-> t]

DigitChars == <<"0", "1", "2", "3", "4", "5", "6", "7", "8", "9">>
DigitOf(c) == CHOOSE d \in 0..9 : DigitChars[d + 1] = c
IsDigit(c) == \E d \in 0..9 : DigitChars[d + 1] = c

RECURSIVE DigitsValue(_)
DigitsValue(s) ==
    IF s = <<>> THEN 0
    ELSE DigitsValue(SubSeq(s, 1, Len(s) - 1)) * 10 + DigitOf(s[Len(s)])

Unsigned(s) == IF Len(s) > 0 /\ s[1] \in {"-", "+"} THEN Tail(s) ELSE s

\* int(text), Decimal(text), float(text) on whole-number texts: an optional sign
\* and at least one digit, anything else raises.
Parses(s) == Len(Unsigned(s)) > 0 /\ \A i \in 1..Len(Unsigned(s)) : IsDigit(Unsigned(s)[i])
NumberOf(s) ==
    IF Len(s) > 0 /\ s[1] = "-" THEN 0 - DigitsValue(Unsigned(s)) ELSE DigitsValue(Unsigned(s))

\* f"{n:05d}": the decimal digits of n, left-padded with zeros to width 5.
RECURSIVE DigitsOf(_)
DigitsOf(n) == IF n < 10 THEN <<DigitChars[n + 1]>> ELSE DigitsOf(n \div 10) \o <<DigitChars[(n % 10) + 1]>>

RECURSIVE ZeroPad(_, _)
ZeroPad(s, w) == IF Len(s) >= w THEN s ELSE ZeroPad(<<"0">> \o s, w)

Format05d(n) == ZeroPad(DigitsOf(n), 5)

TEMP == <<"T", "E", "M", "P">>

\* (mutant) the placeholder is never replaced
InvoiceCode_temp(id) == TEMP

InvoiceCode(id) == <<"F", "-">> \o Format05d(id)

\* ------------------------------------------------------------ input sets
\* price (10.00, 5.50) and tax percentage of the product forms
ProductForms == {[price |-> 100000, tax |-> 13], [price |-> 55000, tax |-> 0]}
NameValues == {"Ana", "Eva"}

\* 'cantidad' of the product forms: absent, not a number, negative, positive.
StockFields == {Absent, Field(<<"x">>), Field(<<"-", "1">>), Field(<<"5">>)}
\* 'cantidad_X' of the sale form.
QtyFields == {Field(<<"x">>), Field(<<"-", "1">>), Field(<<"2">>), Field(<<"3">>)}
\* 'cliente' of the sale form.
ClienteFields == {Absent, Field(<<"x">>), Field(<<"1">>), Field(<<"2">>)}

\* The forms whose producto_X keys are drawn from refs. lineas holds the keys
\* producto_<n> with n a number, by that number, with their cantidad_<n>;
\* otras holds the text after "producto_" of the other submitted keys: texts
\* that are no number ("x"), and other spellings of a number ("01").
LineSets(refs) == UNION {[S -> QtyFields] : S \in {T \in SUBSET refs : Cardinality(T) <= MaxLines}}
Forms(refs) == [cliente : ClienteFields, lineas : LineSets(refs), otras : {{}}]

\* ------------------------------------------------------------------ state
VARIABLES
    customers,        \* customers table: id -> name
    products,         \* products table: id -> [price, tax]
    stock,            \* stock table: product_id -> the qty of each of its rows, oldest first
    invoices,         \* invoices table: id -> [code, customer_id, subtotal, tax_total, total]
    invoice_items,    \* invoice_items table: set of [invoice_id, linea, product_id, quantity, price,
                      \* subtotal], linea the row's place among the rows of its invoice
    nextCustomerId,   \* autoincrement of customers.id
    nextProductId,    \* autoincrement of products.id
    nextInvoiceId,    \* autoincrement of invoices.id
    req               \* per worker: the ventas_nueva request it is serving

tables == <<customers, products, stock, invoices, invoice_items>>
counters == <<nextCustomerId, nextProductId, nextInvoiceId>>
vars == <<customers, products, stock, invoices, invoice_items,
          nextCustomerId, nextProductId, nextInvoiceId, req>>

Empty == [x \in {} |-> 0]
Without(f, k) == [x \in DOMAIN f \ {k} |-> f[x]]
With(f, k, v) == [x \in DOMAIN f \cup {k} |-> IF x = k THEN v ELSE f[x]]

\* db.session.add(Stock(product_id=id, qty=qty)): one more row of the product
StockAdd(s, id, qty) == With(s, id, IF id \in DOMAIN s THEN Append(s[id], qty) ELSE <<qty>>)
\* stock.qty = qty on the row that filter_by(product_id=id).first() returned
StockSet(s, id, qty) == [s EXCEPT ![id] = [@ EXCEPT ![1] = qty]]

NoFactura == [id |-> 0, code |-> <<>>]
Idle ==
    [pc |-> "idle", outcome |-> "none",
     form |-> [cliente |-> Absent, lineas |-> Empty, otras |-> {}],
     clientes |-> {}, productos |-> Empty, existencias |-> Empty,
     cliente_id |-> 0, items |-> <<>>, subtotal |-> 0, iva_total |-> 0, total |-> 0,
     factura |-> NoFactura, detalles |-> {}, stock_qty |-> Empty, i |-> 0]

Init ==
    /\ customers = Empty
    /\ products = Empty
    /\ stock = Empty
    /\ invoices = Empty
    /\ invoice_items = {}
    /\ nextCustomerId = 1
    /\ nextProductId = 1
    /\ nextInvoiceId = 1
    /\ req = [p \in Procs |-> Idle]

\* ------------------------------------------------------------- customers
clientes_agregar(nombre) ==
    /\ nextCustomerId <= MaxCustomers
    /\ customers' = With(customers, nextCustomerId, nombre)
    /\ nextCustomerId' = nextCustomerId + 1
    /\ UNCHANGED <<products, stock, invoices, invoice_items, nextProductId, nextInvoiceId, req>>

clientes_editar(id, nombre) ==
    /\ id \in DOMAIN customers
    /\ customers' = With(customers, id, nombre)
    /\ UNCHANGED <<products, stock, invoices, invoice_items, counters, req>>

\* Invoice.query.filter_by(customer_id=id).count()
FacturasDeCliente(id) == Cardinality({f \in DOMAIN invoices : invoices[f].customer_id = id})

clientes_eliminar(id) ==
    /\ id \in DOMAIN customers
    /\ IF FacturasDeCliente(id) > 0
       THEN UNCHANGED vars
       ELSE /\ customers' = Without(customers, id)
            /\ UNCHANGED <<products, stock, invoices, invoice_items, counters, req>>

\* -------------------------------------------------------------- products
productos_agregar(precio, iva, cantidad) ==
    /\ nextProductId <= MaxProducts
    /\ cantidad.present /\ cantidad.text # <<>> => Parses(cantidad.text)
    /\ products' = With(products, nextProductId, [price |-> precio, tax |-> iva])
    /\ stock' = StockAdd(stock, nextProductId,
                         IF cantidad.present /\ cantidad.text # <<>> THEN NumberOf(cantidad.text) ELSE 0)
    /\ nextProductId' = nextProductId + 1
    /\ UNCHANGED <<customers, invoices, invoice_items, nextCustomerId, nextInvoiceId, req>>

\* (mutant) the items already invoiced follow the new price
productos_editar_reprecia(id, precio, iva, cantidad_raw) ==
    /\ id \in DOMAIN products
    /\ products' = With(products, id, [price |-> precio, tax |-> iva])
    /\ invoice_items' = {IF d.product_id = id
                         THEN [d EXCEPT !.price = precio, !.subtotal = precio * d.quantity]
                         ELSE d : d \in invoice_items}
    /\ UNCHANGED <<customers, stock, invoices, counters, req>>

\* (mutant) a stock row is added without looking for the one there is
productos_editar_otra_fila(id, precio, iva, cantidad_raw) ==
    /\ id \in DOMAIN products
    /\ products' = With(products, id, [price |-> precio, tax |-> iva])
    /\ stock' = StockAdd(stock, id, 0)
    /\ UNCHANGED <<customers, invoices, invoice_items, counters, req>>

\* lines 374-404
productos_editar(id, precio, iva, cantidad_raw) ==
    /\ id \in DOMAIN products
    /\ products' = With(products, id, [price |-> precio, tax |-> iva])
    /\ LET con_fila == IF id \in DOMAIN stock THEN stock ELSE StockAdd(stock, id, 0)
       IN stock' = IF cantidad_raw.present /\ cantidad_raw.text # <<>> /\ Parses(cantidad_raw.text)
                   THEN StockSet(con_fila, id, NumberOf(cantidad_raw.text))
                   ELSE con_fila
    /\ UNCHANGED <<customers, invoices, invoice_items, counters, req>>

\* (mutant) the check of line 413 is left out
TieneFacturas_nunca(id) == FALSE

\* InvoiceItem.query.filter_by(product_id=id).first()
TieneFacturas(id) == \E d \in invoice_items : d.product_id = id

productos_eliminar(id) ==
    /\ id \in DOMAIN products
    /\ IF TieneFacturas(id)
       THEN UNCHANGED vars
       ELSE /\ stock' = Without(stock, id)
            /\ products' = Without(products, id)
            /\ invoice_items' = {d \in invoice_items : d.product_id # id}
            /\ UNCHANGED <<customers, invoices, counters, req>>

\* ------------------------------------------------------- invoice deletion
\* (mutant) the deletion gives the sold quantities back to the stock
ventas_eliminar_repone(id) ==
    /\ id \in DOMAIN invoices
    /\ invoices' = Without(invoices, id)
    /\ invoice_items' = {d \in invoice_items : d.invoice_id # id}
    /\ stock' = [k \in DOMAIN stock |->
                    IF \E d \in invoice_items : d.invoice_id = id /\ d.product_id = k
                    THEN LET d == CHOOSE x \in invoice_items : x.invoice_id = id /\ x.product_id = k
                         IN [stock[k] EXCEPT ![1] = @ + d.quantity]
                    ELSE stock[k]]
    /\ UNCHANGED <<customers, products, counters, req>>

\* lines 238-261 with the cascade of Invoice.items
ventas_eliminar(id) ==
    /\ id \in DOMAIN invoices
    /\ invoices' = Without(invoices, id)
    /\ invoice_items' = {d \in invoice_items : d.invoice_id # id}
    /\ UNCHANGED <<customers, products, stock, counters, req>>

\* ---------------------------------------------------------- ventas_nueva
\* The session's answer to a read: an object already in its identity map keeps
\* the values it was loaded with; anything else is read from the table.
ProductoVisto(r, id) == IF id \in DOMAIN r.productos THEN r.productos[id] ELSE products[id]
ProductoExiste(r, id) == id \in DOMAIN r.productos \/ id \in DOMAIN products
StockVisto(r, id) == IF id \in DOMAIN r.existencias THEN r.existencias[id][1] ELSE stock[id][1]

\* Decimal(str(request.form.get(f'cantidad_{product_id}', 0))), 0 when it raises
Cantidad(f) == IF f.present /\ Parses(f.text) THEN NumberOf(f.text) ELSE 0

\* (mutant) each line's tax is cut to whole cents before it is added up
IvaItem_centavos(tax, subtotal_item) == (((tax * subtotal_item) \div 100) \div 100) * 100

\* precio_unitario * cantidad and (tax / 100) * subtotal_item, in 1/10000
SubtotalItem(precio, cantidad) == precio * cantidad
IvaItem(tax, subtotal_item) == (tax * subtotal_item) \div 100

\* float(d): the stored double denotes the same decimal
ToFloat(d) == d

RECURSIVE Ordenadas(_)
Ordenadas(S) ==
    IF S = {} THEN <<>>
    ELSE LET k == CHOOSE x \in S : \A y \in S : x <= y IN <<k>> \o Ordenadas(S \ {k})

\* (mutant) only negative quantities are dropped
LineaValida_cero(r, k) == Cantidad(r.form.lineas[k]) >= 0 /\ ProductoExiste(r, k)

\* lines 137-142: the line survives when cantidad > 0 and the product is known
LineaValida(r, k) == Cantidad(r.form.lineas[k]) > 0 /\ ProductoExiste(r, k)

\* (mutant) the item records what the stock could serve, not what was asked
ItemDe_servido(r, k) ==
    LET producto == ProductoVisto(r, k)
        pedido == Cantidad(r.form.lineas[k])
        cantidad == IF k \in DOMAIN r.existencias /\ r.existencias[k][1] < pedido
                    THEN r.existencias[k][1] ELSE pedido
    IN [product |-> k, quantity |-> cantidad, price |-> producto.price, tax |-> producto.tax,
        subtotal |-> SubtotalItem(producto.price, cantidad)]

\* lines 144-157
ItemDe(r, k) ==
    LET producto == ProductoVisto(r, k)
        cantidad == Cantidad(r.form.lineas[k])
    IN [product |-> k, quantity |-> cantidad, price |-> producto.price, tax |-> producto.tax,
        subtotal |-> SubtotalItem(producto.price, cantidad)]

\* the product ids that int() reads in the keys of otras, one per key
RECURSIVE IdsDeOtras(_)
IdsDeOtras(T) ==
    IF T = {} THEN <<>>
    ELSE LET t == CHOOSE x \in T : TRUE
         IN (IF Parses(t) THEN <<NumberOf(t)>> ELSE <<>>) \o IdsDeOtras(T \ {t})

\* lines 127-157: one turn per producto_ key; cantidad_<id> is looked up by the
\* number the key reads as
ItemsDe(r) ==
    LET ids == Ordenadas(DOMAIN r.form.lineas) \o IdsDeOtras(r.form.otras)
        ks == SelectSeq(ids, LAMBDA k : k \in DOMAIN r.form.lineas /\ LineaValida(r, k))
    IN [n \in 1..Len(ks) |-> ItemDe(r, ks[n])]

\* lines 149-150: subtotal += subtotal_item, iva_total += iva_item
RECURSIVE SumaSubtotal(_)
SumaSubtotal(items) ==
    IF items = <<>> THEN 0 ELSE Head(items).subtotal + SumaSubtotal(Tail(items))

RECURSIVE SumaIva(_)
SumaIva(items) ==
    IF items = <<>> THEN 0
    ELSE IvaItem(Head(items).tax, Head(items).subtotal) + SumaIva(Tail(items))

\* lines 111-112 and the arrival of the POST: the catalog is loaded
Cargar(form) ==
    [Idle EXCEPT !.pc = "Validating", !.form = form, !.clientes = DOMAIN customers,
                 !.productos = products, !.existencias = stock]

\* lines 114-120
ClienteParses(f) == ~f.present \/ Parses(f.text)
ClienteId(f) == IF f.present THEN NumberOf(f.text) ELSE 0

ValidarCliente(r) ==
    IF ClienteParses(r.form.cliente)
    THEN [r EXCEPT !.pc = "Pricing", !.cliente_id = ClienteId(r.form.cliente)]
    ELSE [r EXCEPT !.pc = "Aborted", !.outcome = "InvalidCustomer",
                   !.productos = Empty, !.existencias = Empty]

\* line 129: int(key.split('_')[1]) raises ValueError on a key that is no
\* number, and nothing in ventas_nueva catches it
ClaveRompe(f) == \E t \in f.otras : ~Parses(t)

\* lines 122-163; of the loaded rows only those of the items are read again
Preciar(r) ==
    LET items == ItemsDe(r)
        subtotal == SumaSubtotal(items)
        iva_total == SumaIva(items)
        vendidos == {items[n].product : n \in 1..Len(items)}
    IN IF ClaveRompe(r.form)
       THEN [r EXCEPT !.pc = "Aborted", !.outcome = "UnhandledError",
                      !.productos = Empty, !.existencias = Empty]
       ELSE IF items = <<>>
       THEN [r EXCEPT !.pc = "Aborted", !.outcome = "EmptyInvoice",
                      !.productos = Empty, !.existencias = Empty]
       ELSE [r EXCEPT !.pc = "Persisting", !.items = items,
                      !.subtotal = subtotal, !.iva_total = iva_total,
                      !.total = subtotal + iva_total,
                      !.productos = Empty,
                      !.existencias = [k \in DOMAIN r.existencias \cap vendidos |-> r.existencias[k]]]

\* lines 111-163: nothing is written before line 174, so the reading part of
\* the request is one step. No request is taken once MaxInvoices ids are used.
ventas_nueva_inicio(p, form) ==
    /\ req[p].pc \in {"idle", "Committed", "Aborted"}
    /\ nextInvoiceId <= MaxInvoices
    /\ LET r1 == ValidarCliente(Cargar(form))
       IN req' = [req EXCEPT ![p] = IF r1.pc = "Pricing" THEN Preciar(r1) ELSE r1]
    /\ UNCHANGED <<tables, counters>>

\* The same reading part, one step per stage: the POST arrives and the catalog
\* is loaded (lines 107-112), the customer is validated (114-120), the lines
\* are priced (122-163).
ventas_nueva_post(p, form) ==
    /\ req[p].pc \in {"idle", "Committed", "Aborted"}
    /\ nextInvoiceId <= MaxInvoices
    /\ req' = [req EXCEPT ![p] = Cargar(form)]
    /\ UNCHANGED <<tables, counters>>

ventas_nueva_cliente(p) ==
    /\ req[p].pc = "Validating"
    /\ req' = [req EXCEPT ![p] = ValidarCliente(@)]
    /\ UNCHANGED <<tables, counters>>

ventas_nueva_items(p) ==
    /\ req[p].pc = "Pricing"
    /\ req' = [req EXCEPT ![p] = Preciar(@)]
    /\ UNCHANGED <<tables, counters>>

\* Invoice.code is unique (models, line 142): while the header of another
\* request is inserted and not yet committed or rolled back, its index entry
\* for TEMP makes the INSERT of line 175 wait.
TempOcupado(p) ==
    \E q \in Procs \ {p} : req[q].pc = "Persisting" /\ req[q].factura # NoFactura

\* (mutant) the id is read from a counter that the insert does not advance
ventas_nueva_factura_sin_avance(p) ==
    /\ req[p].pc = "Persisting"
    /\ req[p].factura = NoFactura
    /\ ~TempOcupado(p)
    /\ req' = [req EXCEPT ![p].factura =
                  [id |-> nextInvoiceId, code |-> InvoiceCode(nextInvoiceId),
                   customer_id |-> req[p].cliente_id,
                   subtotal |-> ToFloat(req[p].subtotal),
                   tax_total |-> ToFloat(req[p].iva_total),
                   total |-> ToFloat(req[p].total)]]
    /\ UNCHANGED <<tables, counters>>

\* lines 165-178: the header is inserted with code TEMP, flushed to learn its
\* id, and recoded from the id
ventas_nueva_factura(p) ==
    /\ req[p].pc = "Persisting"
    /\ req[p].factura = NoFactura
    /\ nextInvoiceId <= MaxInvoices
    /\ ~TempOcupado(p)
    /\ LET nueva_factura == [id |-> nextInvoiceId, code |-> TEMP,
                             customer_id |-> req[p].cliente_id,
                             subtotal |-> ToFloat(req[p].subtotal),
                             tax_total |-> ToFloat(req[p].iva_total),
                             total |-> ToFloat(req[p].total)]
       IN req' = [req EXCEPT ![p].factura =
                     [nueva_factura EXCEPT !.code = InvoiceCode(nueva_factura.id)]]
    /\ nextInvoiceId' = nextInvoiceId + 1
    /\ UNCHANGED <<tables, nextCustomerId, nextProductId>>

\* the request is over: its session and its locals are gone, the response stays
Terminar(r, pc, outcome) ==
    [Idle EXCEPT !.pc = pc, !.outcome = outcome, !.form = r.form, !.clientes = r.clientes,
                 !.cliente_id = r.cliente_id, !.factura = r.factura, !.i = r.i]

\* (mutant) the deduction is not clamped
NuevoStock_sin_tope(stock_actual, cantidad) == stock_actual - cantidad

\* lines 195-200
NuevoStock(stock_actual, cantidad) ==
    IF stock_actual - cantidad < 0 THEN 0 ELSE stock_actual - cantidad

\* (mutant) each item and its stock update are committed as they are made
ventas_nueva_detalle_directo(p) ==
    /\ req[p].pc = "Persisting"
    /\ req[p].factura # NoFactura
    /\ req[p].i < Len(req[p].items)
    /\ LET item == req[p].items[req[p].i + 1]
       IN /\ invoice_items' = invoice_items \cup
                 {[invoice_id |-> req[p].factura.id, linea |-> req[p].i + 1,
                   product_id |-> item.product,
                   quantity |-> item.quantity, price |-> item.price, subtotal |-> item.subtotal]}
          /\ stock' = IF item.product \in DOMAIN stock
                      THEN StockSet(stock, item.product,
                                    NuevoStock(stock[item.product][1], item.quantity))
                      ELSE stock
    /\ req' = [req EXCEPT ![p].i = @ + 1]
    /\ UNCHANGED <<customers, products, invoices, counters>>

\* lines 181-200, one turn of the loop
ventas_nueva_detalle(p) ==
    /\ req[p].pc = "Persisting"
    /\ req[p].factura # NoFactura
    /\ req[p].i < Len(req[p].items)
    /\ LET item == req[p].items[req[p].i + 1]
           detalle == [invoice_id |-> req[p].factura.id, linea |-> req[p].i + 1,
                       product_id |-> item.product,
                       quantity |-> ToFloat(item.quantity), price |-> ToFloat(item.price),
                       subtotal |-> ToFloat(item.subtotal)]
           hay_stock == item.product \in DOMAIN stock
           \* stock.qty as the session has it: what an earlier turn assigned, or
           \* what was loaded
           stock_actual == IF item.product \in DOMAIN req[p].stock_qty
                           THEN req[p].stock_qty[item.product]
                           ELSE StockVisto(req[p], item.product)
       IN req' = [req EXCEPT ![p] =
                     [@ EXCEPT !.i = @ + 1,
                               !.detalles = @ \cup {detalle},
                               !.stock_qty =
                                   IF hay_stock
                                   THEN With(@, item.product,
                                             ToFloat(NuevoStock(stock_actual, item.quantity)))
                                   ELSE @]]
    /\ UNCHANGED <<tables, counters>>

\* (mutant) a sold product without a stock row is given one, at 0
ventas_nueva_commit_crea_stock(p) ==
    /\ req[p].pc = "Persisting"
    /\ req[p].factura # NoFactura
    /\ req[p].i = Len(req[p].items)
    /\ DOMAIN req[p].stock_qty \subseteq DOMAIN stock
    /\ invoices' = With(invoices, req[p].factura.id,
                        [code |-> req[p].factura.code, customer_id |-> req[p].factura.customer_id,
                         subtotal |-> req[p].factura.subtotal,
                         tax_total |-> req[p].factura.tax_total,
                         total |-> req[p].factura.total])
    /\ invoice_items' = invoice_items \cup req[p].detalles
    /\ stock' = [k \in DOMAIN stock \cup {d.product_id : d \in req[p].detalles} |->
                    IF k \in DOMAIN req[p].stock_qty THEN [stock[k] EXCEPT ![1] = req[p].stock_qty[k]]
                    ELSE IF k \in DOMAIN stock THEN stock[k] ELSE <<0>>]
    /\ req' = [req EXCEPT ![p] = Terminar(@, "Committed", "Created")]
    /\ UNCHANGED <<customers, products, counters>>

\* line 203: the unit of work reaches the tables at once
ventas_nueva_commit(p) ==
    /\ req[p].pc = "Persisting"
    /\ req[p].factura # NoFactura
    /\ req[p].i = Len(req[p].items)
    /\ DOMAIN req[p].stock_qty \subseteq DOMAIN stock
    /\ invoices' = With(invoices, req[p].factura.id,
                        [code |-> req[p].factura.code, customer_id |-> req[p].factura.customer_id,
                         subtotal |-> req[p].factura.subtotal,
                         tax_total |-> req[p].factura.tax_total,
                         total |-> req[p].factura.total])
    /\ invoice_items' = invoice_items \cup req[p].detalles
    /\ stock' = [k \in DOMAIN stock |->
                    IF k \in DOMAIN req[p].stock_qty
                    THEN [stock[k] EXCEPT ![1] = req[p].stock_qty[k]] ELSE stock[k]]
    /\ req' = [req EXCEPT ![p] = Terminar(@, "Committed", "Created")]
    /\ UNCHANGED <<customers, products, counters>>

\* (mutant) the stock rows already changed outlive the failed request
ventas_nueva_falla_parcial(p) ==
    /\ req[p].pc = "Persisting"
    /\ req' = [req EXCEPT ![p] = Terminar(@, "Aborted", "PersistenceFailure")]
    /\ stock' = [k \in DOMAIN stock |->
                    IF k \in DOMAIN req[p].stock_qty
                    THEN [stock[k] EXCEPT ![1] = req[p].stock_qty[k]] ELSE stock[k]]
    /\ UNCHANGED <<customers, products, invoices, invoice_items, counters>>

\* a storage error anywhere in lines 165-203: the request dies with its session
ventas_nueva_falla(p) ==
    /\ req[p].pc = "Persisting"
    /\ req' = [req EXCEPT ![p] = Terminar(@, "Aborted", "PersistenceFailure")]
    /\ UNCHANGED <<tables, counters>>

ventas_nueva(p, forms) ==
    \/ \E form \in forms : ventas_nueva_inicio(p, form)
    \/ ventas_nueva_factura(p)
    \/ ventas_nueva_detalle(p)
    \/ ventas_nueva_commit(p)
    \/ ventas_nueva_falla(p)

\* ----------------------------------------------------------- catalog work
Catalogo ==
    \/ \E n \in NameValues : clientes_agregar(n)
    \/ \E id \in 1..MaxCustomers, n \in NameValues : clientes_editar(id, n)
    \/ \E id \in 1..MaxCustomers : clientes_eliminar(id)
    \/ \E f \in ProductForms, c \in StockFields : productos_agregar(f.price, f.tax, c)
    \/ \E id \in 1..MaxProducts, f \in ProductForms, c \in StockFields :
          productos_editar(id, f.price, f.tax, c)
    \/ \E id \in 1..MaxProducts : productos_eliminar(id)
    \/ \E id \in 1..MaxInvoices : ventas_eliminar(id)

\* ---------------------------------------------------------- specifications
\* The whole back office from an empty database: every handler, one sale
\* worker, sale forms that name customer 1 and ask 2 of each product.
FormsTienda ==
    {f \in Forms(1..MaxProducts) :
        /\ f.cliente = Field(<<"1">>)
        /\ \A k \in DOMAIN f.lineas : f.lineas[k] = Field(<<"2">>)}

Next == ventas_nueva(1, FormsTienda) \/ Catalogo
Spec == Init /\ [][Next]_vars

\* The product handlers and the sale, from an empty database, with product
\* forms that leave 'cantidad' out or give 5.
NextProductos ==
    \/ \E f \in ProductForms, c \in {Absent, Field(<<"5">>)} : productos_agregar(f.price, f.tax, c)
    \/ \E id \in 1..MaxProducts, f \in ProductForms, c \in {Absent, Field(<<"5">>)} :
          productos_editar(id, f.price, f.tax, c)
    \/ \E id \in 1..MaxProducts : productos_eliminar(id)
    \/ ventas_nueva(1, FormsTienda)
SpecProductos == Init /\ [][NextProductos]_vars

\* A stocked shop: customer 1, product 1 and, unless it was deleted, product 2.
CatalogosSurtido ==
    {(1 :> [price |-> 100000, tax |-> 13]) @@ (2 :> [price |-> 55000, tax |-> 0]),
     (1 :> [price |-> 100000, tax |-> 13]) @@ (2 :> [price |-> 55000, tax |-> 13]),
     (1 :> [price |-> 100000, tax |-> 13])}

InitSurtido ==
    /\ customers = (1 :> "Ana")
    /\ products \in CatalogosSurtido
    /\ stock = [k \in DOMAIN products |-> <<5>>]
    /\ invoices = Empty
    /\ invoice_items = {}
    /\ nextCustomerId = 2
    /\ nextProductId = 3
    /\ nextInvoiceId = 1
    /\ req = [p \in Procs |-> Idle]

\* The sale transaction alone, with invoice deletion: every line set, for
\* customer 1 or a customer text that is no number.
FormsVenta == {f \in Forms({1, 2}) : f.cliente \in {Field(<<"1">>), Field(<<"x">>)}}
NextVenta == ventas_nueva(1, FormsVenta) \/ \E id \in 1..MaxInvoices : ventas_eliminar(id)
SpecVenta == InitSurtido /\ [][NextVenta]_vars

\* The same, on every customer field and lines of quantity "x" or "2".
FormsCliente ==
    {f \in Forms({1, 2}) :
        \A k \in DOMAIN f.lineas : f.lineas[k] \in {Field(<<"x">>), Field(<<"2">>)}}
NextCliente == ventas_nueva(1, FormsCliente) \/ \E id \in 1..MaxInvoices : ventas_eliminar(id)
SpecCliente == InitSurtido /\ [][NextCliente]_vars

\* Sales one after another with no storage failure and no deletion.
NextSeq ==
    \/ \E form \in FormsVenta : ventas_nueva_inicio(1, form)
    \/ ventas_nueva_factura(1)
    \/ ventas_nueva_detalle(1)
    \/ ventas_nueva_commit(1)
SpecSeq == InitSurtido /\ [][NextSeq]_vars

\* Two workers selling at the same time to customer 1.
FormsConc ==
    {f \in Forms({1, 2}) :
        /\ f.cliente = Field(<<"1">>)
        /\ DOMAIN f.lineas # {}
        /\ \A k \in DOMAIN f.lineas : f.lineas[k] \in {Field(<<"2">>), Field(<<"3">>)}}
NextConc == \E p \in Procs : ventas_nueva(p, FormsConc)
SpecConc == InitSurtido /\ [][NextConc]_vars

\* One request at a time, stage by stage.
PasoDe(p) ==
    \/ ventas_nueva_cliente(p)
    \/ ventas_nueva_items(p)
    \/ ventas_nueva_factura(p)
    \/ ventas_nueva_detalle(p)
    \/ ventas_nueva_commit(p)
    \/ ventas_nueva_falla(p)
NextPasos == (\E form \in FormsCliente : ventas_nueva_post(1, form)) \/ PasoDe(1)
SpecPasos == InitSurtido /\ [][NextPasos]_vars

\* One worker and forms for customer 1 that mix lines of quantity "x", "-1"
\* or "2" with, possibly, a key producto_x.
FormsLineas ==
    {[cliente |-> Field(<<"1">>), lineas |-> l, otras |-> o] :
        l \in UNION {[S -> {Field(<<"x">>), Field(<<"-", "1">>), Field(<<"2">>)}] : S \in SUBSET {1, 2}},
        o \in {{}, {<<"x">>}}}
NextLineas == ventas_nueva(1, FormsLineas)
SpecLineas == InitSurtido /\ [][NextLineas]_vars

\* One worker, with invoice deletion, and forms for customer 1 that ask -1 or 2
\* of a product and may carry the key producto_01 beside producto_1.
FormsClaves ==
    {[cliente |-> Field(<<"1">>), lineas |-> l, otras |-> o] :
        l \in UNION {[S -> {Field(<<"-", "1">>), Field(<<"2">>)}] : S \in SUBSET {1, 2}},
        o \in {{}, {<<"0", "1">>}}}
NextClaves == ventas_nueva(1, FormsClaves) \/ \E id \in 1..MaxInvoices : ventas_eliminar(id)
SpecClaves == InitSurtido /\ [][NextClaves]_vars

\* One worker selling from a shop where product 1 has 5 in stock and product 2
\* has 5 or, as a product row that came without one, no stock row at all;
\* the forms ask 2 or 8 of a product.
FormsStock ==
    {[cliente |-> Field(<<"1">>), lineas |-> l, otras |-> {}] :
        l \in UNION {[S -> {Field(<<"2">>), Field(<<"8">>)}] : S \in SUBSET {1, 2}}}

InitStock ==
    /\ customers = (1 :> "Ana")
    /\ products = (1 :> [price |-> 100000, tax |-> 13]) @@ (2 :> [price |-> 55000, tax |-> 0])
    /\ stock \in {(1 :> <<5>>) @@ (2 :> <<5>>), (1 :> <<5>>)}
    /\ invoices = Empty
    /\ invoice_items = {}
    /\ nextCustomerId = 2
    /\ nextProductId = 3
    /\ nextInvoiceId = 1
    /\ req = [p \in Procs |-> Idle]

NextStock == ventas_nueva(1, FormsStock)
SpecStock == InitStock /\ [][NextStock]_vars

\* ================================================================= claims
ItemsOf(id) == {d \in invoice_items : d.invoice_id = id}

\* C1: every step of a sale request that does not commit it -- the header
\* insert and flush, each item and stock update, and the failure itself --
\* leaves every Invoice, InvoiceItem and Stock row as it was.
C1_FailureChangesNothing ==
    [][\A p \in Procs :
          (req'[p] # req[p] /\ req'[p].pc # "Committed")
          => /\ invoices' = invoices
             /\ invoice_items' = invoice_items
             /\ stock' = stock]_vars

\* a request that failed after its header was flushed and after at least one
\* item and stock update, and of which no row exists
C1_Witness ==
    \E p \in Procs :
        /\ req[p].outcome = "PersistenceFailure"
        /\ req[p].factura.id > 0 /\ req[p].i >= 1
        /\ req[p].factura.id \notin DOMAIN invoices
        /\ ItemsOf(req[p].factura.id) = {}
        /\ \A k \in DOMAIN stock : stock[k] = <<5>>

\* C3: every Stock record has quantity >= 0.
C3_StockNonNegative == \A k \in DOMAIN stock : \A n \in DOMAIN stock[k] : stock[k][n] >= 0

\* The customer reference of a request, as the claims read it: missing, not an
\* integer, or the id of no customer that existed when the request arrived.
ClienteInvalido(r) ==
    \/ ~r.form.cliente.present
    \/ ~Parses(r.form.cliente.text)
    \/ NumberOf(r.form.cliente.text) \notin r.clientes

\* A submitted line as the claims read it: quantity unparseable or <= 0, or a
\* product that is not in the catalog.
LineaMala(f, k) ==
    \/ ~f.lineas[k].present
    \/ ~Parses(f.lineas[k].text)
    \/ NumberOf(f.lineas[k].text) <= 0
    \/ k \notin DOMAIN products

\* C4: a request whose customer reference is missing, unparseable or unknown
\* and which carries at least one valid line aborts as InvalidCustomer and
\* never reaches the writes: it is given no invoice id.
C4_InvalidCustomerAborts ==
    \A p \in Procs :
        (/\ req[p].pc # "idle"
         /\ ClienteInvalido(req[p])
         /\ \E k \in DOMAIN req[p].form.lineas : ~LineaMala(req[p].form, k))
        => /\ req[p].pc = "Aborted"
           /\ req[p].outcome = "InvalidCustomer"
           /\ req[p].factura = NoFactura

RECURSIVE SumaCantidades(_)
SumaCantidades(S) ==
    IF S = {} THEN 0
    ELSE LET d == CHOOSE x \in S : TRUE IN d.quantity + SumaCantidades(S \ {d})

\* C2: with sales running at the same time no deduction is lost: every stock
\* row holds max(0, s - q1 - q2 ...), s = 5 being the stock the shop starts
\* with and q1, q2 ... the quantities of the committed items of the product.
C2_NoLostDeduction ==
    \A k \in DOMAIN stock :
        LET vendido == SumaCantidades({d \in invoice_items : d.product_id = k})
        IN stock[k] = <<IF 5 - vendido < 0 THEN 0 ELSE 5 - vendido>>

\* C6: a customer that some invoice names and a product that some invoice
\* item names are never removed, nor is that product's stock row, and no item
\* goes while its invoice stays.
C6_ReferencedNotDeleted ==
    [][/\ \A c \in DOMAIN customers :
             (\E f \in DOMAIN invoices : invoices[f].customer_id = c)
             => c \in DOMAIN customers'
       /\ \A k \in DOMAIN products :
             (\E d \in invoice_items : d.product_id = k)
             => /\ k \in DOMAIN products'
                /\ k \in DOMAIN stock => k \in DOMAIN stock'
       /\ \A d \in invoice_items :
             d.invoice_id \in DOMAIN invoices' => d \in invoice_items']_vars

\* a customer with an invoice and a product with an invoice item, both still
\* in the catalog after the catalog work
C6_Witness ==
    /\ \E f \in DOMAIN invoices : invoices[f].customer_id \in DOMAIN customers
    /\ \E d \in invoice_items : d.product_id \in DOMAIN products /\ d.product_id \in DOMAIN stock

CodeNumber(code) == DigitsValue(SubSeq(code, 3, Len(code)))

RECURSIVE Mayor(_)
Mayor(S) == LET x == CHOOSE y \in S : TRUE IN IF S = {x} THEN x ELSE
            LET m == Mayor(S \ {x}) IN IF x > m THEN x ELSE m

\* C7: with sales one after another and no failure, each new invoice gets the
\* code F- plus its id in 5 zero-padded digits, different from every earlier
\* code and exactly one more than the latest.
C7_SequentialCodes ==
    [][\A id \in DOMAIN invoices' \ DOMAIN invoices :
          LET code == invoices'[id].code
              antes == {CodeNumber(invoices[f].code) : f \in DOMAIN invoices}
          IN /\ Len(code) = 7 /\ code[1] = "F" /\ code[2] = "-"
             /\ \A n \in 3..7 : IsDigit(code[n])
             /\ CodeNumber(code) = id
             /\ \A f \in DOMAIN invoices : invoices[f].code # code
             /\ antes # {} => CodeNumber(code) = Mayor(antes) + 1]_vars

\* two invoices created in a row
C7_Witness ==
    /\ DOMAIN invoices = {1, 2}
    /\ invoices[1].code = <<"F", "-", "0", "0", "0", "0", "1">>
    /\ invoices[2].code = <<"F", "-", "0", "0", "0", "0", "2">>

\* C8: an invoice that stays in the table keeps its code, customer, subtotal,
\* tax total and total, and exactly its items with their quantity, unit price
\* and line subtotal, whatever the step.
C8_CommittedInvoiceUnchanged ==
    [][\A id \in DOMAIN invoices :
          id \in DOMAIN invoices'
          => /\ invoices'[id] = invoices[id]
             /\ {d \in invoice_items' : d.invoice_id = id}
                = {d \in invoice_items : d.invoice_id = id}]_vars

\* an invoice whose product has since another price and another stock, beside
\* a second invoice
C8_Witness ==
    \E d \in invoice_items :
        /\ d.invoice_id \in DOMAIN invoices
        /\ d.product_id \in DOMAIN products
        /\ products[d.product_id].price # d.price
        /\ stock[d.product_id] = <<-1>>
        /\ Cardinality(DOMAIN invoices) = 2

RECURSIVE SumaLineas(_)
SumaLineas(S) ==
    IF S = {} THEN 0
    ELSE LET d == CHOOSE x \in S : TRUE IN d.price * d.quantity + SumaLineas(S \ {d})

RECURSIVE SumaImpuestos(_)
SumaImpuestos(S) ==
    IF S = {} THEN 0
    ELSE LET d == CHOOSE x \in S : TRUE
         IN d.price * d.quantity * products[d.product_id].tax + SumaImpuestos(S \ {d})

LineasEjemplo(id) ==
    {[invoice_id |-> id, linea |-> 1, product_id |-> 1, quantity |-> 2,
      price |-> 100000, subtotal |-> 200000],
     [invoice_id |-> id, linea |-> 2, product_id |-> 2, quantity |-> 3,
      price |-> 55000, subtotal |-> 165000]}

\* C9: every committed invoice stores subtotal = sum of unit price * quantity
\* over its items, tax total = sum of line subtotal * tax / 100 at the
\* catalog's price and tax, and total = subtotal + tax total; the lines
\* (10.00, 13%, 2) and (5.50, 0%, 3) give 36.50, 2.60 and 39.10.
C9_TotalsCorrect ==
    \A id \in DOMAIN invoices :
        LET f == invoices[id]
            lineas == ItemsOf(id)
        IN /\ \A d \in lineas : /\ d.price = products[d.product_id].price
                                /\ d.subtotal = d.price * d.quantity
           /\ f.subtotal = SumaLineas(lineas)
           /\ f.tax_total * 100 = SumaImpuestos(lineas)
           /\ f.total = f.subtotal + f.tax_total
           /\ (lineas = LineasEjemplo(id) /\ products[1].tax = 13 /\ products[2].tax = 0)
              => f.subtotal = 365000 /\ f.tax_total = 26000 /\ f.total = 391000

\* the invoice of the example
C9_Witness ==
    \E id \in DOMAIN invoices :
        /\ ItemsOf(id) = LineasEjemplo(id)
        /\ products[1].tax = 13 /\ products[2].tax = 0
        /\ invoices[id].total = 391000

\* C10: every amount stored by invoice creation has at most 2 decimal places
\* (is a multiple of 0.01, 100 units of 1/10000).
C10_TwoDecimals ==
    /\ \A id \in DOMAIN invoices :
          /\ invoices[id].subtotal % 100 = 0
          /\ invoices[id].tax_total % 100 = 0
          /\ invoices[id].total % 100 = 0
    /\ \A d \in invoice_items : d.price % 100 = 0 /\ d.subtotal % 100 = 0

\* C11: the commit of a sale leaves the stock row of each product it sold at
\* max(0, s - q), s the row's quantity before and q the quantity of the line
\* (5 and 8 give 0, a deduction of 5), and every other stock row as it was.
C11_StockDeducted ==
    [][\A p \in Procs :
          (req[p].pc = "Persisting" /\ req'[p].pc = "Committed")
          => /\ DOMAIN stock' = DOMAIN stock
             /\ \A k \in DOMAIN stock :
                   LET lineas == {d \in invoice_items' \ invoice_items : d.product_id = k}
                   IN /\ lineas = {} => stock'[k] = stock[k]
                      /\ \A d \in lineas :
                            /\ stock'[k] = <<IF stock[k][1] - d.quantity < 0
                                              THEN 0 ELSE stock[k][1] - d.quantity>>
                            /\ (stock[k] = <<5>> /\ d.quantity = 8)
                               => stock'[k] = <<0>> /\ stock[k][1] - stock'[k][1] = 5]_vars

\* the first sale of the shop asked 8 of product 1, which had 5: it has 0 now,
\* and product 2, not sold, still has 5
C11_Witness ==
    /\ nextInvoiceId = 2
    /\ \E d \in invoice_items : d.product_id = 1 /\ d.quantity = 8
    /\ ~ \E d \in invoice_items : d.product_id = 2
    /\ stock = (1 :> <<0>>) @@ (2 :> <<5>>)

\* C12: a request with a good line and a bad one (unknown or unreadable
\* product reference, quantity unparseable or <= 0) does not fail for it: it
\* is priced, and committed, with one item per good line and nothing else.
C12_BadLineOmitted ==
    \A p \in Procs :
        LET f == req[p].form
            buenas == {k \in DOMAIN f.lineas : ~LineaMala(f, k)}
        IN (req[p].pc # "idle" /\ buenas # {} /\ (buenas # DOMAIN f.lineas \/ f.otras # {}))
           => /\ req[p].outcome \in {"none", "Created", "PersistenceFailure"}
              /\ req[p].pc = "Persisting"
                 => {req[p].items[n].product : n \in 1..Len(req[p].items)} = buenas
              /\ req[p].pc = "Committed"
                 => {d.product_id : d \in ItemsOf(req[p].factura.id)} = buenas

\* C13: a step that removes an invoice removes every item of it and nothing
\* else: the other invoices and their items, the customers, the products and
\* every stock row stay as they were.
C13_DeleteInvoiceOnly ==
    [][\A id \in DOMAIN invoices \ DOMAIN invoices' :
          /\ invoices' = Without(invoices, id)
          /\ invoice_items' = {d \in invoice_items : d.invoice_id # id}
          /\ stock' = stock
          /\ customers' = customers /\ products' = products]_vars

\* invoice 1 sold 2 of product 1 and was deleted; invoice 2, which sold 2 more,
\* is there with its item, and the stock of product 1 is 1, not 3
C13_Witness ==
    /\ DOMAIN invoices = {2}
    /\ invoice_items # {}
    /\ \A d \in invoice_items : d.invoice_id = 2 /\ d.product_id = 1 /\ d.quantity = 2
    /\ stock[1] = <<1>>

\* C14: with requests in flight together, every committed invoice has the
\* code F- plus its own id in 5 digits, never TEMP, no two committed invoices
\* share a code, and no two requests were given the same code.
C14_ConcurrentCodesDistinct ==
    /\ \A f \in DOMAIN invoices :
          invoices[f].code = <<"F", "-">> \o Format05d(f) /\ invoices[f].code # TEMP
    /\ \A f, g \in DOMAIN invoices : f # g => invoices[f].code # invoices[g].code
    /\ \A p, q \in Procs :
          (p # q /\ req[p].factura # NoFactura /\ req[q].factura # NoFactura)
          => req[p].factura.code # req[q].factura.code

\* both workers committed a sale of 2 of product 1 and the stock went from 5
\* to 3 only: they were in flight together; their codes are F-00001, F-00002
C14_Witness ==
    /\ req[1].outcome = "Created" /\ req[2].outcome = "Created"
    /\ DOMAIN invoices = {1, 2}
    /\ {invoices[1].code, invoices[2].code}
       = {<<"F", "-", "0", "0", "0", "0", "1">>, <<"F", "-", "0", "0", "0", "0", "2">>}
    /\ \A d \in invoice_items : d.product_id = 1 /\ d.quantity = 2
    /\ stock[1] = <<3>>

\* the stages of one invocation and the moves between them
Transiciones ==
    {<<"idle", "Validating">>, <<"Committed", "Validating">>, <<"Aborted", "Validating">>,
     <<"Validating", "Pricing">>, <<"Validating", "Aborted">>,
     <<"Pricing", "Persisting">>, <<"Pricing", "Aborted">>,
     <<"Persisting", "Committed">>, <<"Persisting", "Aborted">>}

\* C15: an invocation goes Validating, Pricing, Persisting in that order and
\* ends Committed or Aborted, after which it takes no further step; the
\* invoices, items and stock change in the one step that commits it and in no
\* other, so none changes before Persisting and an aborted invocation leaves
\* nothing behind.
C15_Lifecycle ==
    [][\A p \in Procs :
          /\ req'[p].pc # req[p].pc => <<req[p].pc, req'[p].pc>> \in Transiciones
          /\ (req'[p] # req[p] /\ req[p].pc \in {"Committed", "Aborted"})
             => req'[p].pc = "Validating" /\ req'[p].factura = NoFactura
          /\ <<invoices, invoice_items, stock>>' # <<invoices, invoice_items, stock>>
             => \E q \in Procs : req[q].pc = "Persisting" /\ req'[q].pc = "Committed"]_vars

\* a committed invocation, and after it an invocation that was aborted while
\* persisting, with its header flushed and an item added, and left no row
C15_Witness ==
    /\ req[1].pc = "Aborted" /\ req[1].outcome = "PersistenceFailure"
    /\ req[1].factura.id = 2 /\ req[1].i >= 1
    /\ DOMAIN invoices = {1}
    /\ \A d \in invoice_items : d.invoice_id = 1

\* C16: the commit of a sale with a line of a product that has no stock row
\* stores one item per valid line, that product's too, and totals over all of
\* them; it creates no stock row, and deducts the other lines from theirs.
C16_MissingStockTolerated ==
    [][\A p \in Procs :
          (/\ req[p].pc = "Persisting" /\ req'[p].pc = "Committed"
           /\ \E d \in req[p].detalles : d.product_id \notin DOMAIN stock)
          => LET nuevos == invoice_items' \ invoice_items
                 f == invoices'[req[p].factura.id]
             IN /\ {d.product_id : d \in nuevos}
                   = {k \in DOMAIN req[p].form.lineas : ~LineaMala(req[p].form, k)}
                /\ \A d \in nuevos : d.subtotal = products[d.product_id].price * d.quantity
                /\ f.subtotal = SumaLineas(nuevos)
                /\ f.tax_total * 100 = SumaImpuestos(nuevos)
                /\ f.total = f.subtotal + f.tax_total
                /\ DOMAIN stock' = DOMAIN stock
                /\ \A d \in nuevos :
                      d.product_id \in DOMAIN stock
                      => stock'[d.product_id] =
                            <<IF stock[d.product_id][1] - d.quantity < 0
                              THEN 0 ELSE stock[d.product_id][1] - d.quantity>>]_vars

\* product 2 has no stock row; a sale of 2 of product 1 and 2 of product 2 is
\* committed with both items and the total 33.60, and product 1 is left at 3
C16_Witness ==
    /\ DOMAIN stock = {1} /\ stock[1] = <<3>>
    /\ DOMAIN invoices = {1} /\ invoices[1].total = 336000
    /\ {<<d.product_id, d.quantity>> : d \in invoice_items} = {<<1, 2>>, <<2, 2>>}

\* C17: every product has exactly one stock row, and every stock row is of a
\* product that exists.
C17_OneStockPerProduct ==
    /\ DOMAIN stock = DOMAIN products
    /\ \A k \in DOMAIN stock : Len(stock[k]) = 1

\* product 1 was created, sold (3 left of 5) and then edited to another price:
\* it has its one stock row
C17_Witness ==
    /\ 1 \in DOMAIN products /\ stock[1] = <<3>>
    /\ \E d \in invoice_items : d.product_id = 1 /\ d.price # products[1].price

\* C18: every invoice has at least one item; every item has quantity > 0 and
\* is of an invoice that exists; an invoice has at most one item per product.
C18_InvoiceItemsWellFormed ==
    /\ \A f \in DOMAIN invoices : ItemsOf(f) # {}
    /\ \A d \in invoice_items : d.quantity > 0 /\ d.invoice_id \in DOMAIN invoices
    /\ \A d, e \in invoice_items :
          (d.invoice_id = e.invoice_id /\ d.product_id = e.product_id) => d = e

\* C19: what a committed sale records is a function of the form and of the
\* catalog alone: each item has the quantity asked, the catalog price and
\* their product, and the totals are the sums over the items; where the stock
\* had less than was asked the row goes to 0 and the item still has the full
\* quantity, more than the stock went down by.
C19_InvoiceIgnoresStock ==
    [][\A p \in Procs :
          (req[p].pc = "Persisting" /\ req'[p].pc = "Committed")
          => LET nuevos == invoice_items' \ invoice_items
                 f == invoices'[req[p].factura.id]
             IN /\ \A d \in nuevos :
                      /\ d.quantity = NumberOf(req[p].form.lineas[d.product_id].text)
                      /\ d.price = products[d.product_id].price
                      /\ d.subtotal = d.price * d.quantity
                      /\ (d.product_id \in DOMAIN stock /\ stock[d.product_id][1] < d.quantity)
                         => /\ stock'[d.product_id] = <<0>>
                            /\ d.quantity > stock[d.product_id][1] - stock'[d.product_id][1]
                /\ f.subtotal = SumaLineas(nuevos)
                /\ f.tax_total * 100 = SumaImpuestos(nuevos)
                /\ f.total = f.subtotal + f.tax_total]_vars

\* the first sale asked 8 of product 1, which had 5: the item says 8 at 10.00,
\* 80.00, the invoice at least that, and the stock went down by 5
C19_Witness ==
    /\ nextInvoiceId = 2 /\ 1 \in DOMAIN invoices
    /\ \E d \in invoice_items :
          d.product_id = 1 /\ d.quantity = 8 /\ d.price = 100000 /\ d.subtotal = 800000
    /\ invoices[1].subtotal >= 800000
    /\ stock[1] = <<0>>

====
